---- MODULE Spec2Model ----
(***************************************************************************)
(* Model of app.py: the recipe extractor extract_ingredients and the two   *)
(* Flask handlers index and result.                                        *)
(*                                                                         *)
(* Text is modelled as a sequence of Unicode code points, so that          *)
(* startswith, lower, split, join, replace, substring tests, sorting and   *)
(* percent-encoding are computed as Python computes them.  Every literal   *)
(* carries its text in a comment.                                          *)
(***************************************************************************)
EXTENDS Integers, Sequences, FiniteSets, TLC

(***************************************************************************)
(* Bounds of the explored inputs.                                          *)
(***************************************************************************)
MaxScripts == 2   \* ld+json blocks per page
MaxItems == 2     \* entries of a top-level JSON array
MaxGraph == 2     \* entries of an @graph array
MaxElems == 3     \* classed HTML elements per page

(***************************************************************************)
(* Python str operations.                                                  *)
(***************************************************************************)
\* the sequences over S of length at most n
SeqsUpTo(S, n) == UNION {[1..k -> S] : k \in 0..n}

\* s.startswith(p)
StartsWith(s, p) == Len(s) >= Len(p) /\ SubSeq(s, 1, Len(p)) = p

\* sub in s
Contains(s, sub) ==
    \E i \in 1..(Len(s) - Len(sub) + 1) : SubSeq(s, i, i + Len(sub) - 1) = sub

\* s.lower(), on the code points of the explored texts (A-Z)
LowerChar(c) == IF c >= 65 /\ c <= 90 THEN c + 32 ELSE c
Lower(s) == [i \in 1..Len(s) |-> LowerChar(s[i])]

\* str.isspace() of one code point: space, \t \n \v \f \r
IsSpace(c) == c = 32 \/ (c >= 9 /\ c <= 13)

\* s.strip()
RECURSIVE LStrip(_)
LStrip(s) == IF s # <<>> /\ IsSpace(Head(s)) THEN LStrip(Tail(s)) ELSE s
RECURSIVE RStrip(_)
RStrip(s) ==
    IF s # <<>> /\ IsSpace(s[Len(s)]) THEN RStrip(SubSeq(s, 1, Len(s) - 1)) ELSE s
Strip(s) == RStrip(LStrip(s))

\* len(s.split()): the number of maximal runs of non-space characters
WordCount(s) ==
    Cardinality({i \in 1..Len(s) :
                   /\ ~IsSpace(s[i])
                   /\ (i = 1 \/ IsSpace(s[i - 1]))})

\* sep.join(list)
RECURSIVE Join(_, _)
Join(sep, list) ==
    IF list = <<>> THEN <<>>
    ELSE IF Len(list) = 1 THEN list[1]
    ELSE list[1] \o sep \o Join(sep, Tail(list))

\* the concatenation of parts[lo..hi], by halves
RECURSIVE Flatten(_, _, _)
Flatten(parts, lo, hi) ==
    IF lo > hi THEN <<>>
    ELSE IF lo = hi THEN parts[lo]
    ELSE LET mid == (lo + hi) \div 2
         IN Flatten(parts, lo, mid) \o Flatten(parts, mid + 1, hi)

\* s.replace(old, new) for a one-character old
Replace(s, old, new) ==
    Flatten([i \in 1..Len(s) |-> IF s[i] = old[1] THEN new ELSE <<s[i]>>], 1, Len(s))

\* s < t in Python's ordering of str (by code point, a prefix first)
RECURSIVE StrLess(_, _)
StrLess(s, t) ==
    IF t = <<>> THEN FALSE
    ELSE IF s = <<>> THEN TRUE
    ELSE IF Head(s) # Head(t) THEN Head(s) < Head(t)
    ELSE StrLess(Tail(s), Tail(t))

\* sorted(list(S)) for a set S of str
RECURSIVE SortedList(_)
SortedList(S) ==
    IF S = {} THEN <<>>
    ELSE LET m == CHOOSE x \in S : \A y \in S \ {x} : StrLess(x, y)
         IN <<m>> \o SortedList(S \ {m})

\* set(list)
ToSet(list) == {list[i] : i \in 1..Len(list)}

(***************************************************************************)
(* urllib.parse.quote(s): the UTF-8 bytes of s, every byte outside the     *)
(* unreserved set and '/' written as %XX.                                  *)
(***************************************************************************)
\* "0123456789ABCDEF"
HexDigits == <<48, 49, 50, 51, 52, 53, 54, 55, 56, 57, 65, 66, 67, 68, 69, 70>>

\* the bytes of one code point below U+10000
Utf8(c) ==
    IF c < 128 THEN <<c>>
    ELSE IF c < 2048 THEN <<192 + (c \div 64), 128 + (c % 64)>>
    ELSE <<224 + (c \div 4096), 128 + ((c \div 64) % 64), 128 + (c % 64)>>

\* letters, digits and "_.-~/"
IsSafe(b) ==
    \/ (b >= 65 /\ b <= 90) \/ (b >= 97 /\ b <= 122) \/ (b >= 48 /\ b <= 57)
    \/ b \in {95, 46, 45, 126, 47}

QuoteByte(b) ==
    IF IsSafe(b) THEN <<b>>
    ELSE <<37, HexDigits[(b \div 16) + 1], HexDigits[(b % 16) + 1]>>

QuoteChar(c) ==
    LET bs == Utf8(c)
    IN Flatten([i \in 1..Len(bs) |-> QuoteByte(bs[i])], 1, Len(bs))

Quote(s) == Flatten([i \in 1..Len(s) |-> QuoteChar(s[i])], 1, Len(s))

(***************************************************************************)
(* String literals of app.py.                                              *)
(***************************************************************************)
\* "\n"
NL == <<10>>
\* "Error"
ErrorPrefix == <<69, 114, 114, 111, 114>>
\* "Error: Could not find ingredients using structured data or common HTML methods."
NotFoundMsg ==
    <<69, 114, 114, 111, 114, 58, 32, 67, 111, 117, 108, 100, 32, 110, 111,
      116, 32, 102, 105, 110, 100, 32, 105, 110, 103, 114, 101, 100, 105, 101,
      110, 116, 115, 32, 117, 115, 105, 110, 103, 32, 115, 116, 114, 117, 99,
      116, 117, 114, 101, 100, 32, 100, 97, 116, 97, 32, 111, 114, 32, 99,
      111, 109, 109, 111, 110, 32, 72, 84, 77, 76, 32, 109, 101, 116, 104,
      111, 100, 115, 46>>
\* "Error connecting to URL: "
ConnectMsgPrefix ==
    <<69, 114, 114, 111, 114, 32, 99, 111, 110, 110, 101, 99, 116, 105, 110,
      103, 32, 116, 111, 32, 85, 82, 76, 58, 32>>
\* "An unexpected error occurred: "
UnexpectedMsgPrefix ==
    <<65, 110, 32, 117, 110, 101, 120, 112, 101, 99, 116, 101, 100, 32, 101,
      114, 114, 111, 114, 32, 111, 99, 99, 117, 114, 114, 101, 100, 58, 32>>
\* "My Recipe"
DefaultTitle == <<77, 121, 32, 82, 101, 99, 105, 112, 101>>
\* "• "
Bullet == <<8226, 32>>
\* "\n• "
NLBullet == <<10, 8226, 32>>
\* "Add to Notes"
shortcut_name == <<65, 100, 100, 32, 116, 111, 32, 78, 111, 116, 101, 115>>
\* "shortcuts://run-shortcut?name="
UrlHead ==
    <<115, 104, 111, 114, 116, 99, 117, 116, 115, 58, 47, 47, 114, 117, 110,
      45, 115, 104, 111, 114, 116, 99, 117, 116, 63, 110, 97, 109, 101, 61>>
\* "&input=text&text="
UrlMid ==
    <<38, 105, 110, 112, 117, 116, 61, 116, 101, 120, 116, 38, 116, 101, 120,
      116, 61>>
\* "cook time", "directions"
CookTimePhrase == <<99, 111, 111, 107, 32, 116, 105, 109, 101>>
DirectionsPhrase == <<100, 105, 114, 101, 99, 116, 105, 111, 110, 115>>
\* ['cup', 'tsp', 'tbsp', 'oz', 'gram', 'ml']
Units ==
    {<<99, 117, 112>>, <<116, 115, 112>>, <<116, 98, 115, 112>>, <<111, 122>>,
     <<103, 114, 97, 109>>, <<109, 108>>}
\* the ordered class-name list
common_ingredient_classes ==
    << <<119, 112, 114, 109, 45, 114, 101, 99, 105, 112, 101, 45, 105, 110,
         103, 114, 101, 100, 105, 101, 110, 116>>,          \* wprm-recipe-ingredient
       <<105, 110, 103, 114, 101, 100, 105, 101, 110, 116>>, \* ingredient
       <<105, 110, 103, 114, 101, 100, 105, 101, 110, 116, 115>>, \* ingredients
       <<114, 101, 99, 105, 112, 101, 45, 105, 110, 103, 114, 101, 100, 105,
         101, 110, 116, 115>>,                               \* recipe-ingredients
       <<108, 105, 115, 116, 45, 105, 110, 103, 114, 101, 100, 105, 101, 110,
         116, 115>>,                                         \* list-ingredients
       <<116, 97, 115, 116, 121, 45, 114, 101, 99, 105, 112, 101, 115, 45,
         105, 110, 103, 114, 101, 100, 105, 101, 110, 116, 115>>, \* tasty-recipes-ingredients
       <<112, 97, 110, 116, 114, 121, 45, 108, 105, 115, 116>>, \* pantry-list
       <<114, 101, 99, 105, 112, 101, 73, 110, 103, 114, 101, 100, 105, 101,
         110, 116>>,                                         \* recipeIngredient
       <<111, 45, 73, 110, 103, 114, 101, 100, 105, 101, 110, 116, 115, 95,
         95, 97, 45, 73, 110, 103, 114, 101, 100, 105, 101, 110, 116>> >> \* o-Ingredients__a-Ingredient

(***************************************************************************)
(* Texts of the explored pages.                                            *)
(***************************************************************************)
\* " 2 cups flour "
TxtFlourRaw == <<32, 50, 32, 99, 117, 112, 115, 32, 102, 108, 111, 117, 114, 32>>
\* "2 cups flour"
TxtFlour == <<50, 32, 99, 117, 112, 115, 32, 102, 108, 111, 117, 114>>
\* "1 tsp salt"
TxtSalt == <<49, 32, 116, 115, 112, 32, 115, 97, 108, 116>>
\* "1cup"
TxtOneWord == <<49, 99, 117, 112>>
\* "fresh basil"
TxtBasil == <<102, 114, 101, 115, 104, 32, 98, 97, 115, 105, 108>>
\* "Cook Time 1 cup"
TxtCookTime == <<67, 111, 111, 107, 32, 84, 105, 109, 101, 32, 49, 32, 99, 117, 112>>
\* "Directions: add 1 oz"
TxtDirections ==
    <<68, 105, 114, 101, 99, 116, 105, 111, 110, 115, 58, 32, 97, 100, 100,
      32, 49, 32, 111, 122>>
\* "Butter 2 TBSP"
TxtButter == <<66, 117, 116, 116, 101, 114, 32, 50, 32, 84, 66, 83, 80>>
\* "Error 1 cup"
TxtErrorCup == <<69, 114, 114, 111, 114, 32, 49, 32, 99, 117, 112>>
\* " Best Pie "
TxtH1Raw == <<32, 66, 101, 115, 116, 32, 80, 105, 101, 32>>
\* "Pie | Site"
TxtTitleTag == <<80, 105, 101, 32, 124, 32, 83, 105, 116, 101>>
\* "Pie"
TxtName == <<80, 105, 101>>
\* class attributes: "wprm-recipe-ingredient", "Ingredients", "pantry-list", "nav"
ClsWprm == common_ingredient_classes[1]
ClsIngredients == <<73, 110, 103, 114, 101, 100, 105, 101, 110, 116, 115>>
ClsPantry == common_ingredient_classes[7]
ClsNav == <<110, 97, 118>>
\* texts of the exceptions the libraries raise
MsgTimeout == <<116, 105, 109, 101, 100, 32, 111, 117, 116>>
MsgRefused ==
    <<99, 111, 110, 110, 101, 99, 116, 105, 111, 110, 32, 114, 101, 102, 117,
      115, 101, 100>>
MsgClientError ==
    <<52, 48, 52, 32, 67, 108, 105, 101, 110, 116, 32, 69, 114, 114, 111, 114>>
MsgServerError ==
    <<53, 48, 48, 32, 83, 101, 114, 118, 101, 114, 32, 69, 114, 114, 111, 114>>
MsgNoGet ==
    <<39, 115, 116, 114, 39, 32, 111, 98, 106, 101, 99, 116, 32, 104, 97, 115,
      32, 110, 111, 32, 97, 116, 116, 114, 105, 98, 117, 116, 101, 32, 39,
      103, 101, 116, 39>>
MsgNotStr ==
    <<116, 104, 101, 32, 74, 83, 79, 78, 32, 111, 98, 106, 101, 99, 116, 32,
      109, 117, 115, 116, 32, 98, 101, 32, 115, 116, 114, 44, 32, 98, 121,
      116, 101, 115, 32, 111, 114, 32, 98, 121, 116, 101, 97, 114, 114, 97,
      121, 44, 32, 110, 111, 116, 32, 78, 111, 110, 101, 84, 121, 112, 101>>

(***************************************************************************)
(* Decoded JSON values.  A value is a dict (with the set of its keys), a   *)
(* list, or a str; the fields a kind does not use hold a fixed filler.     *)
(***************************************************************************)
JDict(keys, type, ingredients, name, graph) ==
    [kind |-> "dict", keys |-> keys, type |-> type,
     recipeIngredient |-> ingredients, name |-> name, graph |-> graph,
     items |-> <<>>]
JList(items) ==
    [kind |-> "list", keys |-> {}, type |-> "", recipeIngredient |-> <<>>,
     name |-> <<>>, graph |-> <<>>, items |-> items]
JStr ==
    [kind |-> "str", keys |-> {}, type |-> "", recipeIngredient |-> <<>>,
     name |-> <<>>, graph |-> <<>>, items |-> <<>>]

\* {"@type": "Recipe", "name": "Pie", "recipeIngredient": ["2 cups flour", "1 tsp salt"]}
RecipeFlourSalt ==
    JDict({"@type", "name", "recipeIngredient"}, "Recipe",
          <<TxtFlour, TxtSalt>>, TxtName, <<>>)
\* {"@type": "Recipe", "recipeIngredient": ["Butter 2 TBSP"]}
RecipeButter ==
    JDict({"@type", "recipeIngredient"}, "Recipe", <<TxtButter>>, <<>>, <<>>)
\* {"@type": "Recipe", "name": "Pie", "recipeIngredient": []}
RecipeEmpty ==
    JDict({"@type", "name", "recipeIngredient"}, "Recipe", <<>>, TxtName, <<>>)
\* {"@type": "Recipe"}
RecipeMissing == JDict({"@type"}, "Recipe", <<>>, <<>>, <<>>)
\* {"@type": "Recipe", "recipeIngredient": ["Error 1 cup"]}
RecipeErrorCup ==
    JDict({"@type", "recipeIngredient"}, "Recipe", <<TxtErrorCup>>, <<>>, <<>>)
\* {"@type": "Article", "recipeIngredient": ["1 tsp salt"]}
Article ==
    JDict({"@type", "recipeIngredient"}, "Article", <<TxtSalt>>, <<>>, <<>>)
\* {"@graph": [...]}
GraphNode(g) == JDict({"@graph"}, "", <<>>, <<>>, g)

\* the entries of the explored arrays
Entries == {RecipeFlourSalt, RecipeButter, RecipeEmpty, RecipeMissing, Article, JStr}

(***************************************************************************)
(* script blocks: a block is empty (script.string is None), text that is   *)
(* not JSON, or the text of a JSON value.                                  *)
(***************************************************************************)
NoString == [kind |-> "nostring", val |-> JStr]
Malformed == [kind |-> "malformed", val |-> JStr]
JsonBlock(v) == [kind |-> "json", val |-> v]

GraphBlocks == {JsonBlock(GraphNode(g)) : g \in SeqsUpTo(Entries, MaxGraph)}
ListBlocks == {JsonBlock(JList(l)) : l \in SeqsUpTo(Entries, MaxItems)}
RichBlocks == GraphBlocks \cup ListBlocks
SimpleBlocks ==
    {NoString, Malformed, JsonBlock(JStr), JsonBlock(RecipeMissing),
     JsonBlock(RecipeButter)}

\* the block sequences of simple blocks
SimpleScripts == SeqsUpTo(SimpleBlocks, MaxScripts)

(***************************************************************************)
(* HTML elements that carry text: tag, class attribute (a sequence of zero *)
(* or one value) and the text inside.                                      *)
(***************************************************************************)
Elem(tag, cls, text) == [tag |-> tag, class |-> cls, text |-> text]

Elems ==
    {Elem("li", <<ClsWprm>>, t) :
        t \in {TxtFlourRaw, TxtSalt, TxtOneWord, TxtBasil, TxtCookTime,
               TxtDirections, TxtButter}}
    \cup {Elem("span", <<ClsIngredients>>, TxtFlourRaw),
          Elem("div", <<ClsPantry>>, TxtButter),
          Elem("li", <<ClsNav>>, TxtSalt), Elem("li", <<>>, TxtSalt),
          Elem("p", <<ClsWprm>>, TxtSalt)}

(***************************************************************************)
(* Pages and sites.  A site is what the URL serves: whether the request    *)
(* completes, the status, and the parsed page.                             *)
(***************************************************************************)
Page(h1, titletag, scripts, elems) ==
    [h1 |-> h1, titletag |-> titletag, scripts |-> scripts, elems |-> elems]

EmptyPage == Page(<<>>, <<>>, <<>>, <<>>)
SaltElems == <<Elem("li", <<ClsWprm>>, TxtSalt)>>

Site(net, status, page) == [net |-> net, status |-> status, page |-> page]
Served(h1, titletag, scripts, elems) == Site("ok", 200, Page(h1, titletag, scripts, elems))

\* the sites explored: what the URL may serve
IsSite(x) ==
    \* one rich block among simple ones, and an element the heuristic would take
    \/ \E pre \in SeqsUpTo(SimpleBlocks, MaxScripts - 1) :
         \E suf \in SeqsUpTo(SimpleBlocks, MaxScripts - 1 - Len(pre)) :
           \E b \in RichBlocks :
             x = Served(<<TxtH1Raw>>, <<TxtTitleTag>>, pre \o <<b>> \o suf, SaltElems)
    \* simple blocks, with and without such an element
    \/ \E s \in SimpleScripts \cup {<<Malformed, JsonBlock(RecipeEmpty)>>} :
         \E e \in {<<>>, SaltElems} :
           x = Served(<<TxtH1Raw>>, <<TxtTitleTag>>, s, e)
    \* no structured data, every sequence of elements
    \/ \E e \in SeqsUpTo(Elems, MaxElems) :
         x = Served(<<TxtH1Raw>>, <<TxtTitleTag>>, <<>>, e)
    \* every combination of h1 and title elements
    \/ \E h \in {<<>>, <<TxtH1Raw>>, <<TxtH1Raw, TxtName>>} :
         \E t \in {<<>>, <<TxtTitleTag>>} :
           \E s \in {<<>>, <<JsonBlock(RecipeFlourSalt)>>, <<JsonBlock(RecipeErrorCup)>>,
                      <<JsonBlock(GraphNode(<<Article, RecipeFlourSalt>>))>>} :
             \E e \in {<<>>, SaltElems, <<Elem("li", <<ClsWprm>>, TxtErrorCup)>>} :
               x = Served(h, t, s, e)
    \* requests that do not complete, and error statuses
    \/ \E n \in {"timeout", "refused"} : x = Site(n, 0, EmptyPage)
    \/ \E c \in {404, 500} :
         x = Site("ok", c, Page(<<>>, <<>>, <<JsonBlock(RecipeFlourSalt)>>, SaltElems))

(***************************************************************************)
(* extract_ingredients, step by step.  A step ends in one of three ways:   *)
(* it returns a text from a return statement, it raises an exception, or   *)
(* it falls through to the next step.                                      *)
(***************************************************************************)
Return(text, stmt) == [st |-> "return", val |-> text, at |-> stmt]
Raise(exc, msg) == [st |-> "raise", val |-> msg, at |-> exc]
Continue == [st |-> "next", val |-> <<>>, at |-> ""]

\* the subclasses of requests.exceptions.RequestException, and of Exception
RequestExceptions == {"Timeout", "ConnectionError", "HTTPError"}
Exceptions == RequestExceptions \cup {"TypeError", "AttributeError", "JSONDecodeError"}

\* Fetched without the call of raise_for_status
FetchedNoStatusCheck(s) ==
    IF s.net = "timeout" THEN Raise("Timeout", MsgTimeout)
    ELSE IF s.net = "refused" THEN Raise("ConnectionError", MsgRefused)
    ELSE Continue

\* requests.get(url, timeout=10) and response.raise_for_status()
Fetched(s) ==
    IF s.net = "timeout" THEN Raise("Timeout", MsgTimeout)
    ELSE IF s.net = "refused" THEN Raise("ConnectionError", MsgRefused)
    ELSE IF s.status >= 400 /\ s.status < 500 THEN Raise("HTTPError", MsgClientError)
    ELSE IF s.status >= 500 /\ s.status < 600 THEN Raise("HTTPError", MsgServerError)
    ELSE Continue

\* OuterExcept without the clause `except Exception`
OuterExceptRequestOnly(exc, msg) ==
    IF exc \in RequestExceptions
    THEN [pc |-> "returned", ret |-> ConnectMsgPrefix \o msg, outcome |-> "request_error"]
    ELSE [pc |-> "raised", ret |-> <<>>, outcome |-> exc]

\* the two except clauses that close the function
OuterExcept(exc, msg) ==
    IF exc \in RequestExceptions
    THEN [pc |-> "returned", ret |-> ConnectMsgPrefix \o msg, outcome |-> "request_error"]
    ELSE IF exc \in Exceptions
    THEN [pc |-> "returned", ret |-> UnexpectedMsgPrefix \o msg,
          outcome |-> "unexpected_error"]
    ELSE [pc |-> "raised", ret |-> <<>>, outcome |-> exc]

\* title_tag = soup.find('h1') or soup.find('title'); get_text(strip=True)
ExtractTitle(page) ==
    IF page.h1 # <<>> THEN Strip(page.h1[1])
    ELSE IF page.titletag # <<>> THEN Strip(page.titletag[1])
    ELSE DefaultTitle

\* json.loads(script.string), inside try ... except json.JSONDecodeError: continue
Loads(block) ==
    IF block.kind = "nostring" THEN Raise("TypeError", MsgNotStr)
    ELSE IF block.kind = "malformed" THEN Raise("JSONDecodeError", <<>>)
    ELSE Continue

\* data if isinstance(data, list) else [data]
DataList(data) == IF data.kind = "list" THEN data.items ELSE <<data>>

\* item.get('@type') == 'Recipe'
IsRecipe(item) == "@type" \in item.keys /\ item.type = "Recipe"

\* item.get('recipeIngredient', [])
Ingredients(item) ==
    IF "recipeIngredient" \in item.keys THEN item.recipeIngredient ELSE <<>>

\* ScanGraph looking at one entry of the array only
ScanGraphOneEntry(graph, k) ==
    IF k > Len(graph) THEN Continue
    ELSE IF graph[k].kind # "dict" THEN Raise("AttributeError", MsgNoGet)
    ELSE IF IsRecipe(graph[k]) /\ Ingredients(graph[k]) # <<>>
    THEN Return(Join(NL, Ingredients(graph[k])), "graph")
    ELSE Continue

\* for graph_item in item['@graph']: ..., from entry k on
RECURSIVE ScanGraph(_, _)
ScanGraph(graph, k) ==
    IF k > Len(graph) THEN Continue
    ELSE IF graph[k].kind # "dict" THEN Raise("AttributeError", MsgNoGet)
    ELSE IF IsRecipe(graph[k]) /\ Ingredients(graph[k]) # <<>>
    THEN Return(Join(NL, Ingredients(graph[k])), "graph")
    ELSE ScanGraph(graph, k + 1)

\* the body of: for item in data_list
ScanItem(item) ==
    IF item.kind # "dict" THEN Raise("AttributeError", MsgNoGet)
    ELSE IF IsRecipe(item) /\ Ingredients(item) # <<>>
    THEN Return(Join(NL, Ingredients(item)), "recipe")
    ELSE IF "@graph" \in item.keys THEN ScanGraph(item.graph, 1)
    ELSE Continue

\* find_all(['li', 'span', 'div'], class_=lambda c: c and class_name.lower() in c.lower())
ClassMatches(e, class_name) ==
    /\ e.tag \in {"li", "span", "div"}
    /\ e.class # <<>>
    /\ e.class[1] # <<>>
    /\ Contains(Lower(e.class[1]), Lower(class_name))

\* the validation of one candidate text
Survives(text) ==
    /\ text # <<>>
    /\ WordCount(text) > 1
    /\ \E unit \in Units : Contains(Lower(text), unit)
    /\ ~Contains(Lower(text), CookTimePhrase)
    /\ ~Contains(Lower(text), DirectionsPhrase)

\* ingredient_list after the inner loop over found_tags, for one class name
RECURSIVE Collect(_, _)
Collect(elems, class_name) ==
    IF elems = <<>> THEN <<>>
    ELSE LET text == Strip(Head(elems).text)
             rest == Collect(Tail(elems), class_name)
         IN IF ClassMatches(Head(elems), class_name) /\ Survives(text)
            THEN <<text>> \o rest
            ELSE rest

\* ScanClass joining ingredient_list as collected, without set() and sorted()
ScanClassUnsorted(page, class_name) ==
    LET ingredient_list == Collect(page.elems, class_name)
    IN IF ingredient_list # <<>>
       THEN Return(Join(NL, ingredient_list), "heuristic")
       ELSE Continue

\* the body of: for class_name in common_ingredient_classes
ScanClass(page, class_name) ==
    LET ingredient_list == Collect(page.elems, class_name)
    IN IF ingredient_list # <<>>
       THEN Return(Join(NL, SortedList(ToSet(ingredient_list))), "heuristic")
       ELSE Continue

(***************************************************************************)
(* index, POST branch, after extract_ingredients has returned raw_list.    *)
(***************************************************************************)
IsError(raw_list) == StartsWith(raw_list, ErrorPrefix)
FormattedList(raw_list) == Bullet \o Replace(raw_list, NL, NLBullet)
ShortcutsUrl(raw_list) ==
    UrlHead \o Quote(shortcut_name) \o UrlMid \o Quote(FormattedList(raw_list))

NoResponse == [kind |-> "none", error |-> <<>>, list_text |-> <<>>, shortcut_link |-> <<>>]
FormResponse == [NoResponse EXCEPT !.kind = "form"]
Respond(raw_list) ==
    IF IsError(raw_list)
    THEN [NoResponse EXCEPT !.kind = "error", !.error = raw_list]
    ELSE [NoResponse EXCEPT !.kind = "redirect", !.list_text = raw_list,
                            !.shortcut_link = ShortcutsUrl(raw_list)]

(***************************************************************************)
(* State.                                                                  *)
(***************************************************************************)
VARIABLES
    site,       \* what the URL serves
    pc,         \* position of the request in index / extract_ingredients
    title,      \* local title
    si,         \* index of the script block the outer loop is at
    data_list,  \* local data_list
    ii,         \* index of the item the inner loop is at
    ci,         \* index of the class name the heuristic loop is at
    ret,        \* the text extract_ingredients returned
    outcome,    \* the return statement (or except clause) that produced it
    stages,     \* the stages the call has entered, in order
    response    \* what index answered

vars == <<site, pc, title, si, data_list, ii, ci, ret, outcome, stages, response>>

Init ==
    /\ IsSite(site)
    /\ pc = "idle"
    /\ title = <<>>
    /\ si = 0
    /\ data_list = <<>>
    /\ ii = 0
    /\ ci = 0
    /\ ret = <<>>
    /\ outcome = "none"
    /\ stages = <<>>
    /\ response = NoResponse

\* a step's result applied to the call: return, or raise into the except clauses
Leave(r) ==
    IF r.st = "return"
    THEN /\ pc' = "returned" /\ ret' = r.val /\ outcome' = r.at
    ELSE /\ pc' = OuterExcept(r.at, r.val).pc
         /\ ret' = OuterExcept(r.at, r.val).ret
         /\ outcome' = OuterExcept(r.at, r.val).outcome

\* GET /
IndexGet ==
    /\ pc = "idle"
    /\ response' = FormResponse
    /\ pc' = "idle"
    /\ title' = <<>> /\ si' = 0 /\ data_list' = <<>>
    /\ ii' = 0 /\ ci' = 0 /\ ret' = <<>> /\ outcome' = "none" /\ stages' = <<>>
    /\ UNCHANGED site

\* POST /: index calls extract_ingredients(recipe_url)
IndexPost ==
    /\ pc = "idle"
    /\ pc' = "fetch"
    /\ title' = <<>> /\ si' = 0 /\ data_list' = <<>>
    /\ ii' = 0 /\ ci' = 0 /\ ret' = <<>> /\ outcome' = "none" /\ stages' = <<>>
    /\ response' = NoResponse
    /\ UNCHANGED site

\* the page BeautifulSoup parsed from response.content
soup == site.page

\* lines 15-20: the request, the status check, the parse
Fetch ==
    /\ pc = "fetch"
    /\ stages' = Append(stages, "fetch")
    /\ IF Fetched(site).st = "next"
       THEN /\ pc' = "title"
            /\ UNCHANGED <<ret, outcome>>
       ELSE Leave(Fetched(site))
    /\ UNCHANGED <<site, title, si, data_list, ii, ci, response>>

\* lines 24-30: the title, then the list of ld+json scripts
Title ==
    /\ pc = "title"
    /\ title' = ExtractTitle(soup)
    /\ si' = 1
    /\ pc' = "scripts"
    /\ stages' = Append(stages, "structured")
    /\ UNCHANGED <<site, data_list, ii, ci, ret, outcome, response>>

\* lines 32-37 and 54-56: the next script block is decoded, or the loop ends
NextScript ==
    /\ pc = "scripts"
    /\ IF si > Len(soup.scripts)
       THEN /\ pc' = "classes"
            /\ ci' = 1
            /\ stages' = Append(stages, "heuristic")
            /\ UNCHANGED <<si, data_list, ii, ret, outcome>>
       ELSE LET block == soup.scripts[si]
            IN IF Loads(block).st = "next"
               THEN /\ data_list' = DataList(block.val)
                    /\ ii' = 1
                    /\ pc' = "items"
                    /\ UNCHANGED <<si, ci, ret, outcome, stages>>
               ELSE IF Loads(block).at = "JSONDecodeError"
               THEN /\ si' = si + 1
                    /\ UNCHANGED <<pc, data_list, ii, ci, ret, outcome, stages>>
               ELSE /\ Leave(Loads(block))
                    /\ UNCHANGED <<si, data_list, ii, ci, stages>>
    /\ UNCHANGED <<site, title, response>>

\* lines 39-52: the next item of data_list is examined, or the inner loop ends
NextItem ==
    /\ pc = "items"
    /\ IF ii > Len(data_list)
       THEN /\ si' = si + 1
            /\ pc' = "scripts"
            /\ UNCHANGED <<ii, ret, outcome>>
       ELSE IF ScanItem(data_list[ii]).st = "next"
       THEN /\ ii' = ii + 1
            /\ UNCHANGED <<pc, si, ret, outcome>>
       ELSE /\ Leave(ScanItem(data_list[ii]))
            /\ UNCHANGED <<si, ii>>
    /\ UNCHANGED <<site, title, data_list, ci, stages, response>>

\* lines 75-97: the next class name is tried, or the search fails
NextClass ==
    /\ pc = "classes"
    /\ IF ci > Len(common_ingredient_classes)
       THEN /\ Leave(Return(NotFoundMsg, "not_found"))
            /\ UNCHANGED ci
       ELSE IF ScanClass(soup, common_ingredient_classes[ci]).st = "next"
       THEN /\ ci' = ci + 1
            /\ UNCHANGED <<pc, ret, outcome>>
       ELSE /\ Leave(ScanClass(soup, common_ingredient_classes[ci]))
            /\ UNCHANGED ci
    /\ UNCHANGED <<site, title, si, data_list, ii, stages, response>>

\* lines 113-130: index answers with the error page or the redirect
IndexRespond ==
    /\ pc = "returned"
    /\ response' = Respond(ret)
    /\ pc' = "idle"
    /\ UNCHANGED <<site, title, si, data_list, ii, ci, ret, outcome, stages>>

Next ==
    \/ IndexGet
    \/ IndexPost
    \/ Fetch
    \/ Title
    \/ NextScript
    \/ NextItem
    \/ NextClass
    \/ IndexRespond

Spec == Init /\ [][Next]_vars

(***************************************************************************)
(* What the claims speak of, stated on the page and on the returned text,  *)
(* independently of the scan.                                              *)
(***************************************************************************)
\* extract_ingredients has left (returned; index may have answered since)
Returned == outcome \in {"recipe", "graph", "heuristic", "not_found",
                         "request_error", "unexpected_error"}
Success == {"recipe", "graph", "heuristic"}
Failure == {"not_found", "request_error", "unexpected_error"}

\* the request fails: it does not complete, or the status is 4xx/5xx
FetchFails == site.net # "ok" \/ site.status >= 400

\* the candidates of a page in document order: every entry of every decoded
\* block, each followed by the entries of its @graph array
ItemCandidates(item) ==
    <<item>> \o (IF item.kind = "dict" /\ "@graph" \in item.keys THEN item.graph ELSE <<>>)
ValueCandidates(v) ==
    LET l == IF v.kind = "list" THEN v.items ELSE <<v>>
    IN Flatten([i \in 1..Len(l) |-> ItemCandidates(l[i])], 1, Len(l))
PageCandidates(page) ==
    Flatten([i \in 1..Len(page.scripts) |->
               IF page.scripts[i].kind = "json"
               THEN ValueCandidates(page.scripts[i].val) ELSE <<>>],
            1, Len(page.scripts))

\* a Recipe object with a non-empty recipeIngredient array
IsTarget(c) ==
    /\ c.kind = "dict"
    /\ "@type" \in c.keys /\ c.type = "Recipe"
    /\ "recipeIngredient" \in c.keys /\ c.recipeIngredient # <<>>

HasTarget(cands) == \E i \in 1..Len(cands) : IsTarget(cands[i])
FirstTarget(cands) ==
    cands[CHOOSE i \in 1..Len(cands) :
            IsTarget(cands[i]) /\ \A j \in 1..(i - 1) : ~IsTarget(cands[j])]

\* the lines of a text: its pieces between "\n"
NLPositions(s) == {i \in 1..Len(s) : s[i] = 10}
Cut(s, k) ==
    IF k = 0 THEN 0
    ELSE IF k > Cardinality(NLPositions(s)) THEN Len(s) + 1
    ELSE CHOOSE i \in NLPositions(s) :
           Cardinality({j \in NLPositions(s) : j < i}) = k - 1
Lines(s) ==
    [k \in 1..(Cardinality(NLPositions(s)) + 1) |->
        SubSeq(s, Cut(s, k - 1) + 1, Cut(s, k) - 1)]

\* the surviving candidate lines of one class substring
Survivors(page, k) ==
    {Strip(page.elems[i].text) : i \in
        {i \in 1..Len(page.elems) :
            /\ page.elems[i].tag \in {"li", "span", "div"}
            /\ page.elems[i].class # <<>>
            /\ Contains(Lower(page.elems[i].class[1]), Lower(common_ingredient_classes[k]))
            /\ LET t == Strip(page.elems[i].text)
               IN /\ WordCount(t) > 1
                  /\ \E u \in Units : Contains(Lower(t), u)
                  /\ ~Contains(Lower(t), CookTimePhrase)
                  /\ ~Contains(Lower(t), DirectionsPhrase)}}
ClassesWithSurvivors(page) ==
    {k \in 1..Len(common_ingredient_classes) : Survivors(page, k) # {}}
FirstClass(page) ==
    LET with == ClassesWithSurvivors(page)
    IN CHOOSE k \in with : \A j \in with : k <= j

(***************************************************************************)
(* The claims.                                                             *)
(***************************************************************************)

\* C1: for every fetched page that holds a Recipe target with a non-empty
\* ingredient array, the returned text is the ingredient strings of the first
\* such target in document order, joined by "\n".
C1_FirstTargetReturned ==
    (Returned /\ ~FetchFails /\ HasTarget(PageCandidates(site.page)))
        => ret = Join(NL, FirstTarget(PageCandidates(site.page)).recipeIngredient)

\* C2: extract_ingredients never raises past its boundary: whatever a step
\* raises, the call ends in a return statement or an except clause with a text,
\* the connection message for a failed request and the generic message for
\* every other exception.
C2_NeverRaises ==
    /\ pc # "raised"
    /\ pc = "returned" => outcome \in Success \cup Failure
    /\ outcome = "request_error" => StartsWith(ret, ConnectMsgPrefix)
    /\ outcome = "unexpected_error" => StartsWith(ret, UnexpectedMsgPrefix)

\* a step of the scan raised AttributeError and the call returned the message
C2_Witness ==
    /\ pc = "returned"
    /\ outcome = "unexpected_error"
    /\ ret = UnexpectedMsgPrefix \o MsgNoGet

\* C3: once index has answered a POST, every error outcome of the extractor
\* (fetch failure, not found, unexpected failure) was answered with the error
\* page carrying that message and no shortcut link, and every success with the
\* redirect.
C3_ErrorsSurfaced ==
    (pc = "idle" /\ response.kind \in {"error", "redirect"}) =>
        /\ outcome \in Failure =>
              /\ response.kind = "error"
              /\ response.error = ret
              /\ response.shortcut_link = <<>>
        /\ outcome \in Success => response.kind = "redirect"

\* C4: a block that does not decode as JSON is skipped: the scan goes on with
\* the next block and the call neither returns nor fails because of it.
C4_UndecodableBlockSkipped ==
    [][(/\ pc = "scripts"
        /\ si <= Len(soup.scripts)
        /\ soup.scripts[si].kind # "json")
          => (pc' = "scripts" /\ si' = si + 1 /\ UNCHANGED <<ret, outcome>>)]_vars

\* C5: for every fetched page without a Recipe target with non-empty
\* ingredients, whatever its blocks decode to, the call ends in the heuristic
\* result if some class substring has a surviving candidate, and otherwise in
\* the not-found message.
C5_NoTargetFallsBack ==
    (Returned /\ ~FetchFails /\ ~HasTarget(PageCandidates(site.page))) =>
        IF ClassesWithSurvivors(site.page) # {}
        THEN outcome = "heuristic"
        ELSE outcome = "not_found" /\ ret = NotFoundMsg

\* C6: on every return exactly one holds: the text is a non-empty ingredient
\* text that is not read as an error, or it is an error message that is read as
\* an error.
C6_ExactlyOne ==
    Returned =>
        \/ (outcome \in Success /\ ret # <<>> /\ ~IsError(ret))
        \/ (outcome \in Failure /\ IsError(ret))

\* C7: the title of a successful extraction is the name of the Recipe target
\* when the result came from a target that has one, else the trimmed text of
\* the first h1, else that of the title element, else the placeholder.
C7_TitlePriority ==
    (Returned /\ outcome \in Success) =>
        title =
            IF /\ outcome \in {"recipe", "graph"}
               /\ "name" \in FirstTarget(PageCandidates(site.page)).keys
            THEN FirstTarget(PageCandidates(site.page)).name
            ELSE IF site.page.h1 # <<>> THEN Strip(site.page.h1[1])
            ELSE IF site.page.titletag # <<>> THEN Strip(site.page.titletag[1])
            ELSE DefaultTitle

\* C8: the stages are entered in the order fetch, structured, heuristic; after
\* a failed fetch nothing is parsed and the result is the connection error; a
\* structured result is returned without the heuristic stage, and the
\* heuristic stage is entered only for a page without a Recipe target.
C8_StageOrder ==
    /\ stages \in {<<>>, <<"fetch">>, <<"fetch", "structured">>,
                   <<"fetch", "structured", "heuristic">>}
    /\ FetchFails => pc \in {"idle", "fetch", "returned"}
    /\ (FetchFails /\ Returned) =>
          /\ stages = <<"fetch">>
          /\ outcome = "request_error"
          /\ StartsWith(ret, ConnectMsgPrefix)
    /\ outcome \in {"recipe", "graph"} =>
          /\ stages = <<"fetch", "structured">>
          /\ ret = Join(NL, FirstTarget(PageCandidates(site.page)).recipeIngredient)
    /\ Len(stages) = 3 => ~HasTarget(PageCandidates(site.page))

\* a structured result on a page that also has an element the heuristic takes
C8_Witness ==
    /\ pc = "returned"
    /\ outcome \in {"recipe", "graph"}
    /\ ClassesWithSurvivors(site.page) # {}

\* C9: when the scan is at a candidate that is not typed Recipe and has an
\* @graph array of objects, one of them a Recipe with non-empty ingredients,
\* the call returns the ingredients of the first such entry, in order.
GraphCase(item) ==
    /\ item.kind = "dict"
    /\ ~("@type" \in item.keys /\ item.type = "Recipe")
    /\ "@graph" \in item.keys
    /\ \A k \in 1..Len(item.graph) : item.graph[k].kind = "dict"
    /\ HasTarget(item.graph)
C10_HeuristicResult ==
    (pc = "returned" /\ Len(stages) = 3) =>
        IF ClassesWithSurvivors(site.page) = {}
        THEN outcome = "not_found"
        ELSE /\ outcome = "heuristic"
             /\ LET L == Lines(ret)
                IN /\ ToSet(L) = Survivors(site.page, FirstClass(site.page))
                   /\ \A i \in 1..(Len(L) - 1) : StrLess(L[i], L[i + 1])

\* two survivors of the first class in descending page order, and a survivor
\* that only a later class substring matches
C10_Witness ==
    /\ pc = "returned"
    /\ outcome = "heuristic"
    /\ site.page.elems = <<Elem("li", <<ClsWprm>>, TxtFlourRaw),
                           Elem("li", <<ClsWprm>>, TxtSalt),
                           Elem("div", <<ClsPantry>>, TxtButter)>>
    /\ ret = TxtSalt \o NL \o TxtFlour

====
